---------------------------- MODULE Spec2Model ----------------------------
(***************************************************************************)
(* A model of the WireGuard provisioning core of the tunnel dashboard      *)
(* (backend/app/mikrotik.py): the address and port-block allocators, the   *)
(* provisioning saga with its compensation, the multi-step teardown and    *)
(* the peer statistics, run by concurrent request handlers against one     *)
(* router, with the users, request bodies and client records of the        *)
(* create_client and delete_client endpoints of main.py.                   *)
(*                                                                         *)
(* Text is modelled as text: router fields are strings, and the code's     *)
(* split / isdigit / int / str / slicing / substring filters are computed  *)
(* on them.  IPv4 addresses are 32-bit numbers with their dotted form.     *)
(***************************************************************************)
EXTENDS Integers, Sequences, FiniteSets, TLC

VARIABLES
    ifaces,     \* router: /interface/wireguard items
    addrs,      \* router: /ip/address items
    peers,      \* router: /interface/wireguard/peers items
    nat,        \* router: /ip/firewall/nat items
    scheds,     \* router: /system/scheduler items
    cascade,    \* router: whether deleting an interface removes its dependents
    pc,         \* per handler: the await it is suspended at
    loc,        \* per handler: the locals of the running coroutine
    fails,      \* remote calls that have failed so far
    ops,        \* operations started so far
    known,      \* the client records: interface name, parameters, is_active
    serial,     \* whether the caller runs one operation at a time
    probe       \* the last allocator call made on its own: arguments and result

router == <<ifaces, addrs, peers, nat, scheds, cascade>>
vars == <<ifaces, addrs, peers, nat, scheds, cascade,
          pc, loc, fails, ops, known, serial, probe>>

---------------------------------------------------------------------------
(* Bounds of the model.                                                    *)

MaxOps == 3         \* operations started in one behaviour, serial caller
MaxOpsConc == 2     \* operations started in one behaviour, concurrent callers
MaxOpsEnv == 2      \* provisions started in one behaviour, provision on its own
MaxOpsClients == 3  \* requests started in one behaviour, users at the endpoints
MaxFail == 2        \* remote calls that fail in one behaviour, serial caller
MaxFailConc == 1    \* remote calls that fail in one behaviour, concurrent callers
MaxCount == 4       \* largest block size asked of the port allocator on its own
Window == 12        \* bases above the floor that the listed rules can reach
IdSpan == 16        \* identifiers set aside for the items of one operation

Procs == {1, 2}

---------------------------------------------------------------------------
(* Text helpers: what Python's str methods do on the values met here.      *)

Char(s, i) == SubSeq(s, i, i)

\* `t in s`
Contains(s, t) ==
    \E i \in 1..(Len(s) - Len(t) + 1) : SubSeq(s, i, i + Len(t) - 1) = t

\* the position of the first c in s, 0 if none
RECURSIVE IndexFrom(_, _, _)
IndexFrom(s, c, i) ==
    IF i > Len(s) THEN 0
    ELSE IF Char(s, i) = c THEN i
    ELSE IndexFrom(s, c, i + 1)

\* s.split(c): the sequence of the parts between the separators
RECURSIVE Split(_, _)
Split(s, c) ==
    LET k == IndexFrom(s, c, 1)
    IN  IF k = 0 THEN <<s>>
        ELSE <<SubSeq(s, 1, k - 1)>> \o Split(SubSeq(s, k + 1, Len(s)), c)

Last(q) == q[Len(q)]

Digits == "0123456789"

IsDigitChar(c) == \E d \in 1..10 : Char(Digits, d) = c

\* s.isdigit(): non-empty and all digits
IsDigit(s) == Len(s) > 0 /\ \A i \in 1..Len(s) : IsDigitChar(Char(s, i))

DigitVal(c) == (CHOOSE d \in 1..10 : Char(Digits, d) = c) - 1

\* int(s) of a digit string
RECURSIVE ParseInt(_)
ParseInt(s) ==
    IF Len(s) = 0 THEN 0
    ELSE 10 * ParseInt(SubSeq(s, 1, Len(s) - 1)) + DigitVal(Char(s, Len(s)))

\* str(n), n >= 0
RECURSIVE IntToStr(_)
IntToStr(n) ==
    IF n < 10 THEN Char(Digits, n + 1)
    ELSE IntToStr(n \div 10) \o Char(Digits, (n % 10) + 1)

\* str(IPv4Address(n))
IpToStr(n) ==
    IntToStr(n \div 16777216) \o "." \o IntToStr((n \div 65536) % 256) \o "."
        \o IntToStr((n \div 256) % 256) \o "." \o IntToStr(n % 256)

\* int(IPv4Address(s)) of a dotted quad
StrToIp(s) ==
    LET o == Split(s, ".")
    IN  ((ParseInt(o[1]) * 256 + ParseInt(o[2])) * 256 + ParseInt(o[3])) * 256
            + ParseInt(o[4])

\* ipaddress.ip_network(subnet): the network address and the prefix length
ip_network(subnet) ==
    LET q == Split(subnet, "/")
    IN  [net |-> StrToIp(q[1]), plen |-> ParseInt(q[2])]

\* network.hosts() as the first and last address it yields: all addresses
\* but the network and broadcast address; both addresses of a /31; the
\* single address of a /32
hosts(network) ==
    LET size == 2 ^ (32 - network.plen)
    IN  IF network.plen >= 31
        THEN [first |-> network.net, last |-> network.net + size - 1]
        ELSE [first |-> network.net + 1, last |-> network.net + size - 2]

---------------------------------------------------------------------------
(* Dates: datetime.now() + timedelta(days) and strftime("%Y-%m-%d").  A day *)
(* is counted from 2026-01-01, day 0.                                      *)

EpochYear == 2026

IsLeap(y) == (y % 4 = 0 /\ y % 100 # 0) \/ y % 400 = 0
DaysInYear(y) == IF IsLeap(y) THEN 366 ELSE 365
DaysInMonth(y, mo) ==
    IF mo = 2 THEN (IF IsLeap(y) THEN 29 ELSE 28)
    ELSE IF mo \in {4, 6, 9, 11} THEN 30 ELSE 31

\* the year, month and day of month of day number n
RECURSIVE MonthOf(_, _, _)
MonthOf(y, mo, n) ==
    IF n < DaysInMonth(y, mo) THEN [year |-> y, month |-> mo, day |-> n + 1]
    ELSE MonthOf(y, mo + 1, n - DaysInMonth(y, mo))

RECURSIVE YearOf(_, _)
YearOf(y, n) ==
    IF n < DaysInYear(y) THEN MonthOf(y, 1, n) ELSE YearOf(y + 1, n - DaysInYear(y))

\* %m and %d: two digits
Pad2(n) == IF n < 10 THEN "0" \o IntToStr(n) ELSE IntToStr(n)

\* (day n).strftime("%Y-%m-%d")
strftime(n) ==
    LET d == YearOf(EpochYear, n)
    IN  IntToStr(d.year) \o "-" \o Pad2(d.month) \o "-" \o Pad2(d.day)

\* the day datetime.now() falls on in operation number opno: 2026-12-02,
\* 2027-01-30 and 2028-01-31, from which thirty days cross the end of a year,
\* a February of 28 days and one of 29 days
now(opno) == <<335, 394, 760>>[((opno - 1) % 3) + 1]

---------------------------------------------------------------------------
(* MikrotikResourceManager                                                 *)

NoIp == "IP pool exhausted"
NoPort == 0
PortCeiling == 60000
PortFloor == 20000

\* the used addresses that the /ip/address listing contributes
UsedOfAddrs(items) ==
    {Split(a.address, "/")[1] : a \in {x \in items : Contains(x.address, "/")}}
        \cup {a.network : a \in {x \in items : x.network # ""}}

\* a scan of one source only: the peer listing contributes nothing
UsedOfPeers_None(items) == {}

\* the used addresses that the peer listing contributes
UsedOfPeers(items) ==
    UNION {
        LET entries == Split(p.allowed, ",")
        IN  {Split(entries[k], "/")[1] :
                k \in {j \in 1..Len(entries) : Contains(entries[j], "/")}}
        : p \in items}

get_used_ips(addrItems, peerItems) ==
    UsedOfAddrs(addrItems) \cup UsedOfPeers(peerItems)

RECURSIVE ScanHosts(_, _, _, _)
ScanHosts(ip, last, gateway, used) ==
    IF ip > last THEN NoIp
    ELSE IF IpToStr(ip) # gateway /\ IpToStr(ip) \notin used THEN IpToStr(ip)
    ELSE ScanHosts(ip + 1, last, gateway, used)

\* a scan that does not reserve the gateway
NextFreeIp_NoGateway(subnet, used) ==
    LET network == ip_network(subnet)
        h == hosts(network)
    IN  ScanHosts(h.first, h.last, "", used)

\* get_next_free_ip after its listing: the scan of the host range
NextFreeIp(subnet, used) ==
    LET network == ip_network(subnet)
        gateway == IpToStr(network.net + 1)
        h == hosts(network)
    IN  ScanHosts(h.first, h.last, gateway, used)

get_next_free_ip(subnet, addrItems, peerItems) ==
    NextFreeIp(subnet, get_used_ips(addrItems, peerItems))

\* the ports one dst-port field contributes
PortsOfField(port) ==
    IF Contains(port, "-")
    THEN LET q == Split(port, "-")
         IN  IF Len(q) = 2 /\ IsDigit(q[1]) /\ IsDigit(q[2])
             THEN ParseInt(q[1]) .. ParseInt(q[2])
             ELSE {}
    ELSE IF IsDigit(port) THEN {ParseInt(port)}
    ELSE {}

\* GET /ip/firewall/nat?chain=dstnat
DstNatRules(items) == {r \in items : r.chain = "dstnat"}

get_used_ports(natItems) ==
    UNION {PortsOfField(r.dstport) : r \in DstNatRules(natItems)}

RECURSIVE ProbeBlock(_, _, _)
ProbeBlock(candidate, count, used) ==
    IF ~(candidate < PortCeiling) THEN NoPort
    ELSE IF \A i \in 0..(count - 1) : (candidate + i) \notin used THEN candidate
    ELSE ProbeBlock(candidate + 1, count, used)

\* a probe that tests the base alone, not the whole block
get_free_port_block_BaseOnly(natItems, start, count) ==
    ProbeBlock(start, 1, get_used_ports(natItems))

get_free_port_block(natItems, start, count) ==
    ProbeBlock(start, count, get_used_ports(natItems))

---------------------------------------------------------------------------
(* The router behind MikrotikAPI.request: collections of items, each with  *)
(* an identifier the router assigns.                                       *)

\* the listing filters: field=value is equality, field~value is containment
AddrsOfInterface(name) == {a \in addrs : a.interface = name}
NatByComment(text) == {r \in nat : Contains(r.comment, text)}
SchedsByName(text) == {s \in scheds : Contains(s.name, text)}
IfacesByName(name) == {i \in ifaces : i.name = name}

Ids(items) == {x.id : x \in items}

\* a listing, in the router's order (by identifier)
RECURSIVE Listed(_)
Listed(idset) ==
    IF idset = {} THEN <<>>
    ELSE LET m == CHOOSE x \in idset : \A y \in idset : x <= y
         IN  <<m>> \o Listed(idset \ {m})

\* the router after DELETE /interface/wireguard/<id>: a cascading router
\* drops the items that refer to the interface, another one keeps them
RemoveIface(id) ==
    LET gone == {i.name : i \in {x \in ifaces : x.id = id}}
    IN  /\ ifaces' = {i \in ifaces : i.id # id}
        /\ addrs' = IF cascade THEN {a \in addrs : a.interface \notin gone} ELSE addrs
        /\ peers' = IF cascade THEN {q \in peers : q.interface \notin gone} ELSE peers
        /\ nat' = IF cascade THEN {r \in nat : r.outif \notin gone} ELSE nat
        /\ UNCHANGED <<scheds, cascade>>

\* the identifier of the next item an operation creates.  The router's
\* identifiers are opaque and never reused; they are numbered here by the
\* operation that created the item and its position among that operation's
\* creations.
NewId(l) == l.opno * IdSpan + l.n

\* the exception request() raises for a failed call
Err(call) == "MikroTik API Error: " \o call

---------------------------------------------------------------------------
(* WireGuardManager                                                        *)

SERVICES == <<[name |-> "dapodik", port |-> 5774],
              [name |-> "erapor_sd", port |-> 8535],
              [name |-> "erapor_smp", port |-> 8534],
              [name |-> "https", port |-> 443]>>

POOL_SUBNET == "10.200.0.0/16"

ClientNames == {"a", "a_bbbb"}
Suffixes == {"bbbb"}
Durations == {0, 30}

\* an optional value: None, or Some(v)
None == <<>>
Some(v) == <<v>>

\* data.get(key, default) on a request body whose keys may be missing
Get(value, default) == IF value = None THEN default ELSE value[1]

\* the body of a POST /clients request, "name" aside
NoData == [enable_nat |-> None, duration_days |-> None]
Body(enable_nat, duration_days) ==
    [enable_nat |-> Some(enable_nat), duration_days |-> Some(duration_days)]

\* bodies with each key present or missing
Bodies ==
    {[enable_nat |-> en, duration_days |-> dd] :
        en \in {None, Some(FALSE), Some(TRUE)}, dd \in {None, Some(0), Some(30)}}

Users == {1, 2}

NoLoc ==
    [op |-> "", user |-> 0, data |-> NoData,
     client_name |-> "", pool_subnet |-> "", enable_nat |-> FALSE,
     duration_days |-> 0,
     srv_priv |-> "", srv_pub |-> "", cli_priv |-> "", cli_pub |-> "",
     suffix |-> "", comment |-> "", exp_str |-> "", used |-> {}, client_ip |-> "",
     gateway_ip |-> "", iface_name |-> "", iface_id |-> 0, peer_id |-> 0,
     base_port |-> 0, i |-> 0, opno |-> 0, n |-> 0, todo |-> <<>>, exc |-> "",
     created |-> {}, tried |-> {}, failed |-> {}, log |-> <<>>, noid |-> {},
     client |-> 0, endpoint |-> FALSE,
     status |-> "", error |-> "", result |-> None]

Goto(p, label) == pc' = [pc EXCEPT ![p] = label]
Store(p, l) == loc' = [loc EXCEPT ![p] = l]

\* a remote call that raises without the router having acted
Failing ==
    /\ fails < (IF serial THEN MaxFail ELSE MaxFailConc)
    /\ fails' = fails + 1
Passing == fails' = fails

Raised(l, e) == [l EXCEPT !.status = "error", !.error = e]

\* one request of provision and how it came back
Called(l, call, ok) == [l EXCEPT !.log = Append(@, [call |-> call, ok |-> ok])]

\* generate_keys(): a fresh private key and the public key derived from it
PublicKey(priv) == "pub" \o SubSeq(priv, 5, Len(priv))
generate_keys(k) ==
    LET priv == "priv" \o IntToStr(k)
    IN  [priv |-> priv, pub |-> PublicKey(priv)]

\* the nat_mappings dict filled by the loop over SERVICES
nat_mappings(l) ==
    [j \in 1..Len(SERVICES) |-> [svc |-> SERVICES[j].name, port |-> l.base_port + (j - 1)]]

\* a returned dict that carries the router's key as the client's
ProvisionedPeer_ServerKey(l) ==
    [client_name |-> l.client_name,
     client_ip |-> l.client_ip,
     gateway_ip |-> l.gateway_ip,
     server_public_key |-> l.srv_pub,
     client_private_key |-> l.srv_priv,
     interface_name |-> l.iface_name,
     mikrotik_peer_id |-> IF l.peer_id = 0 THEN None ELSE Some(l.peer_id),
     nat_mappings |-> IF l.enable_nat THEN Some(nat_mappings(l)) ELSE None,
     expires_at |-> IF l.duration_days > 0 THEN Some(l.exp_str) ELSE None]

\* the dict provision returns (server_endpoint and server_port left out)
ProvisionedPeer(l) ==
    [client_name |-> l.client_name,
     client_ip |-> l.client_ip,
     gateway_ip |-> l.gateway_ip,
     server_public_key |-> l.srv_pub,
     client_private_key |-> l.cli_priv,
     interface_name |-> l.iface_name,
     mikrotik_peer_id |-> IF l.peer_id = 0 THEN None ELSE Some(l.peer_id),
     nat_mappings |-> IF l.enable_nat THEN Some(nat_mappings(l)) ELSE None,
     expires_at |-> IF l.duration_days > 0 THEN Some(l.exp_str) ELSE None]

Returned(l) ==
    [l EXCEPT !.status = "ok",
              !.result = IF l.op = "provision" THEN Some(ProvisionedPeer(l)) ELSE None]

\* the caller starts requests freely, or one at a time (on handler 1)
MayStart(p) ==
    /\ pc[p] = "idle"
    /\ ops < (IF serial THEN MaxOps ELSE MaxOpsConc)
    /\ serial => p = 1

\* provision(client_name, pool_subnet, enable_nat, duration_days) for the
\* request of a user with body data: the arguments as create_client reads
\* them from the body, and the draws made before the first await.  The listen
\* port is drawn too; it takes no part in what is checked here.
Begin(p, client_name, pool_subnet, user, data) ==
    /\ pc[p] = "idle"
    /\ \E cn \in {client_name}, sfx \in Suffixes :
        LET srv == generate_keys(2 * (ops + 1))
            cli == generate_keys(2 * (ops + 1) + 1)
        IN  Store(p, [NoLoc EXCEPT !.op = "provision", !.opno = ops + 1,
                                   !.user = user, !.data = data,
                                   !.client_name = cn, !.pool_subnet = pool_subnet,
                                   !.enable_nat = Get(data.enable_nat, TRUE),
                                   !.duration_days = Get(data.duration_days, 30),
                                   !.srv_priv = srv.priv, !.srv_pub = srv.pub,
                                   !.cli_priv = cli.priv, !.cli_pub = cli.pub,
                                   !.suffix = sfx])
    /\ Goto(p, "get_addrs")
    /\ ops' = ops + 1
    /\ UNCHANGED <<router, fails, known, serial, probe>>

\* the single-device check of create_client: no active record of the user
SingleDevice(user) == ~\E k \in known : k.user = user /\ k.is_active

\* create_client up to its call of provision, always on the 10.200.0.0/16 pool
create_client(p, user, name, data) ==
    /\ SingleDevice(user)
    /\ Begin(p, name, POOL_SUBNET, user, data)

\* a request with both keys in its body, from a user who has not asked before
StartProvision(p) ==
    /\ MayStart(p)
    /\ \E cn \in ClientNames, en \in BOOLEAN, dd \in Durations :
        create_client(p, ops + 1, cn, Body(en, dd))

\* the first request at the endpoints: user 1 registers a device without NAT
\* and expiry
FirstName == "c"
StartFirst(p) ==
    /\ ops = 0
    /\ create_client(p, 1, FirstName, Body(FALSE, 0))

\* a request of one of the users, with any body, after the first request
\* was answered
StartCreate(p) ==
    /\ 0 < ops /\ ops < MaxOpsClients
    /\ known # {}
    /\ \E user \in Users, cn \in ClientNames, data \in Bodies :
        create_client(p, user, cn, data)

\* the handler of provision's try block: the failed call's exception is
\* kept while the interface is deleted
Except(p, l, e) ==
    /\ Store(p, [l EXCEPT !.exc = e])
    /\ Goto(p, "compensate")

\* an exception handled like those of the try block
Abort_Compensating(p, l, e) == Except(p, l, e)

\* an exception raised before the try block leaves provision at once
Abort(p, l, e) ==
    /\ Store(p, Raised(l, e))
    /\ Goto(p, "done")

\* get_used_ips: GET /ip/address
P_GetAddrs(p) ==
    /\ pc[p] = "get_addrs"
    /\ \/ /\ Passing
          /\ Store(p, [Called(loc[p], "GET /ip/address", TRUE)
                            EXCEPT !.used = UsedOfAddrs(addrs)])
          /\ Goto(p, "get_peers")
       \/ /\ Failing
          /\ Abort(p, Called(loc[p], "GET /ip/address", FALSE), Err("GET /ip/address"))
    /\ UNCHANGED <<router, ops, known, serial, probe>>

\* get_used_ips: GET /interface/wireguard/peers, then the scan of
\* get_next_free_ip and the names provision derives
P_GetPeers(p) ==
    /\ pc[p] = "get_peers"
    /\ \/ /\ Passing
          /\ LET l == Called(loc[p], "GET /interface/wireguard/peers", TRUE)
                 ip == NextFreeIp(l.pool_subnet, l.used \cup UsedOfPeers(peers))
                 exp_str == IF l.duration_days > 0
                            THEN strftime(now(l.opno) + l.duration_days)
                            ELSE "UNLIMITED"
             IN  IF ip = NoIp
                 THEN Abort(p, l, NoIp)
                 ELSE /\ Store(p, [l EXCEPT
                            !.used = {},
                            !.client_ip = ip,
                            !.gateway_ip = IpToStr(ip_network(l.pool_subnet).net + 1),
                            !.iface_name = "wg_" \o l.client_name \o "_" \o l.suffix,
                            !.exp_str = exp_str,
                            !.comment = "Client: " \o l.client_name \o " | EXP: " \o exp_str])
                      /\ Goto(p, "create_iface")
       \/ /\ Failing
          /\ Abort(p, Called(loc[p], "GET /interface/wireguard/peers", FALSE),
                   Err("GET /interface/wireguard/peers"))
    /\ UNCHANGED <<router, ops, known, serial, probe>>

\* PUT /interface/wireguard; the router refuses a name it already has
P_CreateIface(p) ==
    /\ pc[p] = "create_iface"
    /\ \/ /\ IfacesByName(loc[p].iface_name) = {}
          /\ Passing
          /\ ifaces' = ifaces \cup {[id |-> NewId(loc[p]), name |-> loc[p].iface_name,
                                     private_key |-> loc[p].srv_priv,
                                     comment |-> loc[p].comment]}
          /\ Store(p, [Called(loc[p], "PUT /interface/wireguard", TRUE)
                            EXCEPT !.iface_id = NewId(loc[p]), !.n = @ + 1])
          /\ Goto(p, "bind_addr")
          /\ UNCHANGED <<addrs, peers, nat, scheds, cascade>>
       \/ /\ \/ IfacesByName(loc[p].iface_name) # {} /\ Passing
             \/ Failing
          /\ Abort(p, Called(loc[p], "PUT /interface/wireguard", FALSE),
                   Err("PUT /interface/wireguard"))
          /\ UNCHANGED router
    /\ UNCHANGED <<ops, known, serial, probe>>

\* PUT /ip/address
P_BindAddr(p) ==
    /\ pc[p] = "bind_addr"
    /\ \/ /\ Passing
          /\ addrs' = addrs \cup {[id |-> NewId(loc[p]), interface |-> loc[p].iface_name,
                                   address |-> loc[p].gateway_ip \o "/32",
                                   network |-> loc[p].client_ip]}
          /\ Store(p, [Called(loc[p], "PUT /ip/address", TRUE)
                            EXCEPT !.created = @ \cup {NewId(loc[p])}, !.n = @ + 1])
          /\ Goto(p, "create_peer")
          /\ UNCHANGED <<ifaces, peers, nat, scheds, cascade>>
       \/ /\ Failing
          /\ Except(p, Called(loc[p], "PUT /ip/address", FALSE), Err("PUT /ip/address"))
          /\ UNCHANGED router
    /\ UNCHANGED <<ops, known, serial, probe>>

\* a provision that schedules an expiry whatever the duration
AfterNat_Always(l) == "create_sched"

\* a provision that goes past the NAT rules
AfterPeer_NoNat(l) == IF l.duration_days > 0 THEN "create_sched" ELSE "done"

\* where provision goes after the peer, and after the NAT rules
AfterNat(l) == IF l.duration_days > 0 THEN "create_sched" ELSE "done"
AfterPeer(l) == IF l.enable_nat THEN "get_ports" ELSE AfterNat(l)

\* to the next await, or out of provision with its return value
Proceed(p, l, label) ==
    /\ Store(p, IF label = "done" THEN Returned(l) ELSE l)
    /\ Goto(p, label)

\* PUT /interface/wireguard/peers
P_CreatePeer(p) ==
    /\ pc[p] = "create_peer"
    /\ \/ /\ Passing
          /\ peers' = peers \cup {[id |-> NewId(loc[p]), interface |-> loc[p].iface_name,
                                   public_key |-> loc[p].cli_pub,
                                   allowed |-> loc[p].client_ip \o "/32",
                                   comment |-> loc[p].comment]}
          /\ Proceed(p, [Called(loc[p], "PUT /interface/wireguard/peers", TRUE)
                            EXCEPT !.peer_id = NewId(loc[p]),
                                   !.created = @ \cup {NewId(loc[p])}, !.n = @ + 1],
                     AfterPeer(loc[p]))
          /\ UNCHANGED <<ifaces, addrs, nat, scheds, cascade>>
       \/ /\ Failing
          /\ Except(p, Called(loc[p], "PUT /interface/wireguard/peers", FALSE),
                    Err("PUT /interface/wireguard/peers"))
          /\ UNCHANGED router
    /\ UNCHANGED <<ops, known, serial, probe>>

\* get_free_port_block(): GET /ip/firewall/nat?chain=dstnat and the probe
P_GetPorts(p) ==
    /\ pc[p] = "get_ports"
    /\ \/ /\ Passing
          /\ LET base == get_free_port_block(nat, PortFloor, Len(SERVICES))
                 l == Called(loc[p], "GET /ip/firewall/nat", TRUE)
             IN  IF base = NoPort
                 THEN Except(p, l, "No free port block")
                 ELSE /\ Store(p, [l EXCEPT !.base_port = base, !.i = 0])
                      /\ Goto(p, "create_nat")
       \/ /\ Failing
          /\ Except(p, Called(loc[p], "GET /ip/firewall/nat", FALSE),
                    Err("GET /ip/firewall/nat"))
    /\ UNCHANGED <<router, ops, known, serial, probe>>

\* PUT /ip/firewall/nat for service number i of SERVICES
P_CreateNat(p) ==
    /\ pc[p] = "create_nat"
    /\ \/ /\ Passing
          /\ LET l == Called(loc[p], "PUT /ip/firewall/nat dstnat", TRUE)
                 svc == SERVICES[l.i + 1]
             IN  /\ nat' = nat \cup {[id |-> NewId(loc[p]), chain |-> "dstnat",
                                      dstport |-> IntToStr(l.base_port + l.i),
                                      toaddr |-> l.client_ip,
                                      toport |-> IntToStr(svc.port),
                                      outif |-> "",
                                      comment |-> l.iface_name \o "_" \o svc.name]}
                 /\ Store(p, [l EXCEPT !.i = l.i + 1, !.created = @ \cup {NewId(loc[p])}, !.n = @ + 1])
                 /\ Goto(p, IF l.i + 1 < Len(SERVICES) THEN "create_nat" ELSE "create_masq")
          /\ UNCHANGED <<ifaces, addrs, peers, scheds, cascade>>
       \/ /\ Failing
          /\ Except(p, Called(loc[p], "PUT /ip/firewall/nat dstnat", FALSE),
                    Err("PUT /ip/firewall/nat"))
          /\ UNCHANGED router
    /\ UNCHANGED <<ops, known, serial, probe>>

\* PUT /ip/firewall/nat for the masquerade rule
P_CreateMasq(p) ==
    /\ pc[p] = "create_masq"
    /\ \/ /\ Passing
          /\ nat' = nat \cup {[id |-> NewId(loc[p]), chain |-> "srcnat", dstport |-> "",
                               toaddr |-> "", toport |-> "",
                               outif |-> loc[p].iface_name,
                               comment |-> "Masq-" \o loc[p].client_name]}
          /\ Proceed(p, [Called(loc[p], "PUT /ip/firewall/nat srcnat", TRUE)
                            EXCEPT !.created = @ \cup {NewId(loc[p])}, !.n = @ + 1],
                     AfterNat(loc[p]))
          /\ UNCHANGED <<ifaces, addrs, peers, scheds, cascade>>
       \/ /\ Failing
          /\ Except(p, Called(loc[p], "PUT /ip/firewall/nat srcnat", FALSE),
                    Err("PUT /ip/firewall/nat"))
          /\ UNCHANGED router
    /\ UNCHANGED <<ops, known, serial, probe>>

\* a scheduler named by the piece after "wg_" instead of the last one
sched_name_First(client_name, iface_name) ==
    "EXP_" \o client_name \o "_" \o Split(iface_name, "_")[2]

\* the name _create_scheduler gives, from the suffix provision cuts off the
\* interface name
sched_name(client_name, iface_name) ==
    "EXP_" \o client_name \o "_" \o Last(Split(iface_name, "_"))

\* _create_scheduler: PUT /system/scheduler
P_CreateSched(p) ==
    /\ pc[p] = "create_sched"
    /\ \/ /\ Passing
          /\ scheds' = scheds \cup {[id |-> NewId(loc[p]),
                                     name |-> sched_name(loc[p].client_name,
                                                         loc[p].iface_name)]}
          /\ Proceed(p, [Called(loc[p], "PUT /system/scheduler", TRUE)
                            EXCEPT !.created = @ \cup {NewId(loc[p])}, !.n = @ + 1],
                     "done")
          /\ UNCHANGED <<ifaces, addrs, peers, nat, cascade>>
       \/ /\ Failing
          /\ Except(p, Called(loc[p], "PUT /system/scheduler", FALSE),
                    Err("PUT /system/scheduler"))
          /\ UNCHANGED router
    /\ UNCHANGED <<ops, known, serial, probe>>

\* the except clause of provision: DELETE /interface/wireguard/<id>, then
\* the bare raise; an exception of the DELETE replaces the one handled
P_Compensate(p) ==
    /\ pc[p] = "compensate"
    /\ \/ /\ loc[p].iface_id \in Ids(ifaces)
          /\ Passing
          /\ RemoveIface(loc[p].iface_id)
          /\ Store(p, Raised(Called(loc[p], "DELETE /interface/wireguard", TRUE),
                             loc[p].exc))
       \/ /\ \/ loc[p].iface_id \notin Ids(ifaces) /\ Passing
             \/ Failing
          /\ Store(p, Raised(Called(loc[p], "DELETE /interface/wireguard", FALSE),
                             Err("DELETE /interface/wireguard")))
          /\ UNCHANGED router
    /\ Goto(p, "done")
    /\ UNCHANGED <<ops, known, serial, probe>>

\* provision called on its own, on the pool of create_client or on a pool of
\* two host addresses, the gateway one of them
SmallPool == "10.200.0.0/30"
Pools == {POOL_SUBNET, SmallPool}
StartAnyPool(p) ==
    /\ MayStart(p)
    /\ ops < MaxOpsEnv
    /\ \E cn \in ClientNames, pool_subnet \in Pools, en \in BOOLEAN, dd \in Durations :
        Begin(p, cn, pool_subnet, ops + 1, Body(en, dd))

\* a create call answered without error and without an identifier (request()
\* returns no '.id'); the router made no item.  Only the interface's answer
\* is examined (and raises outside the try block); the peer's gives peer_id
\* None; the others are not looked at.
P_NoId(p) ==
    /\ Failing
    /\ LET l == [loc[p] EXCEPT !.noid = @ \cup {pc[p]}]
       IN  \/ /\ pc[p] = "create_iface"
              /\ Abort(p, Called(l, "PUT /interface/wireguard", FALSE),
                       "Failed to create interface")
           \/ /\ pc[p] = "bind_addr"
              /\ Store(p, Called(l, "PUT /ip/address", TRUE))
              /\ Goto(p, "create_peer")
           \/ /\ pc[p] = "create_peer"
              /\ Proceed(p, Called(l, "PUT /interface/wireguard/peers", TRUE), AfterPeer(l))
           \/ /\ pc[p] = "create_nat"
              /\ Store(p, [Called(l, "PUT /ip/firewall/nat dstnat", TRUE)
                                EXCEPT !.i = l.i + 1])
              /\ Goto(p, IF l.i + 1 < Len(SERVICES) THEN "create_nat" ELSE "create_masq")
           \/ /\ pc[p] = "create_masq"
              /\ Proceed(p, Called(l, "PUT /ip/firewall/nat srcnat", TRUE), AfterNat(l))
           \/ /\ pc[p] = "create_sched"
              /\ Proceed(p, Called(l, "PUT /system/scheduler", TRUE), "done")
    /\ UNCHANGED <<router, ops, known, serial, probe>>

\* the awaits of provision
ProvisionAwaits ==
    {"get_addrs", "get_peers", "create_iface", "bind_addr", "create_peer",
     "get_ports", "create_nat", "create_masq", "create_sched", "compensate"}

\* the task running provision is cancelled while it waits for an answer, the
\* router not having acted on the request: CancelledError is raised at the
\* await.  It is a BaseException, which `except Exception` does not catch.
P_Cancel(p) ==
    /\ pc[p] \in ProvisionAwaits
    /\ Failing
    /\ Store(p, [loc[p] EXCEPT !.status = "cancelled", !.error = "CancelledError"])
    /\ Goto(p, "done")
    /\ UNCHANGED <<router, ops, known, serial, probe>>

---------------------------------------------------------------------------
(* get_client_stats(interface_name)                                        *)

\* a key the listed item does not have
Absent == "<absent>"

\* int(peer.get(key, 0))
IntOf(v) == IF v = Absent THEN 0 ELSE ParseInt(v)

\* the truth value `not` sees in peer.get("disabled", False): the default
\* False, or a string, which is true when it is not empty
Truthy(v) == v # Absent /\ v # ""

\* the dict returned for the peer found
Stats(peer) ==
    [last_handshake |-> IF peer.last_handshake = Absent \/ peer.last_handshake = "never"
                        THEN None ELSE Some(peer.last_handshake),
     rx_bytes |-> IntOf(peer.rx),
     tx_bytes |-> IntOf(peer.tx),
     enabled |-> ~Truthy(peer.disabled)]

\* the loop over the listed peers: the first one bound to the interface
RECURSIVE FirstBound(_, _, _)
FirstBound(peerItems, order, interface_name) ==
    IF order = <<>> THEN None
    ELSE LET peer == CHOOSE q \in peerItems : q.id = Head(order)
         IN  IF peer.interface = interface_name THEN Some(Stats(peer))
             ELSE FirstBound(peerItems, Tail(order), interface_name)

get_client_stats(peerItems, interface_name) ==
    FirstBound(peerItems, Listed(Ids(peerItems)), interface_name)

---------------------------------------------------------------------------
(* delete_client(interface_name)                                           *)

\* a teardown that starts with the interface
BeginDelete_IfaceFirst(p, k) ==
    /\ pc[p] = "idle"
    /\ Store(p, [NoLoc EXCEPT !.op = "delete_client", !.opno = ops + 1,
                              !.user = k.user,
                              !.iface_name = k.name, !.client = k.opno,
                              !.endpoint = k.is_active])
    /\ Goto(p, "list_iface")
    /\ ops' = ops + 1
    /\ UNCHANGED <<router, fails, known, serial, probe>>

\* an endpoint that takes the interface name of a provision under way, if
\* there is one
BeginDelete_Uncommitted(p, k) ==
    /\ pc[p] = "idle"
    /\ \/ /\ \A q \in Procs : loc[q].iface_name = ""
          /\ Store(p, [NoLoc EXCEPT !.op = "delete_client", !.opno = ops + 1,
                                    !.user = k.user,
                                    !.iface_name = k.name, !.client = k.opno,
                                    !.endpoint = k.is_active])
       \/ \E q \in Procs :
            /\ loc[q].op = "provision" /\ loc[q].iface_name # ""
            /\ Store(p, [NoLoc EXCEPT !.op = "delete_client", !.opno = ops + 1,
                                      !.user = loc[q].user,
                                      !.iface_name = loc[q].iface_name,
                                      !.client = loc[q].opno, !.endpoint = TRUE])
    /\ Goto(p, "list_addrs")
    /\ ops' = ops + 1
    /\ UNCHANGED <<router, fails, known, serial, probe>>

\* delete_client(interface_name) on the interface of the client record k
BeginDelete(p, k) ==
    /\ pc[p] = "idle"
    /\ Store(p, [NoLoc EXCEPT !.op = "delete_client", !.opno = ops + 1,
                              !.user = k.user,
                              !.iface_name = k.name, !.client = k.opno,
                              !.endpoint = k.is_active])
    /\ Goto(p, "list_addrs")
    /\ ops' = ops + 1
    /\ UNCHANGED <<router, fails, known, serial, probe>>

\* delete_client called by the DELETE /clients/<id> endpoint, which selects
\* active records only, or on its own for a record that is no longer active
StartDelete(p) ==
    /\ MayStart(p)
    /\ \E k \in known : BeginDelete(p, k)

\* the DELETE /clients/<id> endpoint, asked by the user of an active record
StartDeleteOwn(p) ==
    /\ ops < MaxOpsClients
    /\ \E k \in known :
        /\ k.user \in Users /\ k.is_active
        /\ BeginDelete(p, k)

\* a sub-step's listing came back: its deletions, or the next sub-step
Listing(p, step, idset, deleting, after) ==
    /\ Store(p, [loc[p] EXCEPT !.todo = Listed(idset), !.tried = @ \cup {step}])
    /\ Goto(p, IF idset = {} THEN after ELSE deleting)

\* a sub-step whose exception leaves delete_client
Logged_Raising(p, step, after) ==
    /\ Store(p, Raised([loc[p] EXCEPT !.tried = @ \cup {step},
                                      !.failed = @ \cup {step}], "raised"))
    /\ Goto(p, "done")

\* a call of a sub-step raised: its except clause prints, and the next
\* sub-step follows
Logged(p, step, after) ==
    /\ Store(p, [loc[p] EXCEPT !.todo = <<>>, !.tried = @ \cup {step},
                               !.failed = @ \cup {step}])
    /\ Goto(p, after)

\* one item of a sub-step's loop was deleted
Deleted(p, deleting, after) ==
    /\ Store(p, [loc[p] EXCEPT !.todo = Tail(@)])
    /\ Goto(p, IF Len(loc[p].todo) > 1 THEN deleting ELSE after)

\* 1. GET /ip/address?interface=<interface_name>
D_ListAddrs(p) ==
    /\ pc[p] = "list_addrs"
    /\ \/ /\ Passing
          /\ Listing(p, "address", Ids(AddrsOfInterface(loc[p].iface_name)),
                     "delete_addr", "list_nat")
       \/ /\ Failing
          /\ Logged(p, "address", "list_nat")
    /\ UNCHANGED <<router, ops, known, serial, probe>>

\* 1. DELETE /ip/address/<id>
D_DeleteAddr(p) ==
    /\ pc[p] = "delete_addr"
    /\ LET id == Head(loc[p].todo)
       IN  \/ /\ id \in Ids(addrs)
              /\ Passing
              /\ addrs' = {a \in addrs : a.id # id}
              /\ Deleted(p, "delete_addr", "list_nat")
              /\ UNCHANGED <<ifaces, peers, nat, scheds, cascade>>
           \/ /\ \/ id \notin Ids(addrs) /\ Passing
                 \/ Failing
              /\ Logged(p, "address", "list_nat")
              /\ UNCHANGED router
    /\ UNCHANGED <<ops, known, serial, probe>>

\* 2. GET /ip/firewall/nat?comment~<interface_name>
D_ListNat(p) ==
    /\ pc[p] = "list_nat"
    /\ \/ /\ Passing
          /\ Listing(p, "nat", Ids(NatByComment(loc[p].iface_name)),
                     "delete_nat", "list_scheds")
       \/ /\ Failing
          /\ Logged(p, "nat", "list_scheds")
    /\ UNCHANGED <<router, ops, known, serial, probe>>

\* 2. DELETE /ip/firewall/nat/<id>
D_DeleteNat(p) ==
    /\ pc[p] = "delete_nat"
    /\ LET id == Head(loc[p].todo)
       IN  \/ /\ id \in Ids(nat)
              /\ Passing
              /\ nat' = {r \in nat : r.id # id}
              /\ Deleted(p, "delete_nat", "list_scheds")
              /\ UNCHANGED <<ifaces, addrs, peers, scheds, cascade>>
           \/ /\ \/ id \notin Ids(nat) /\ Passing
                 \/ Failing
              /\ Logged(p, "nat", "list_scheds")
              /\ UNCHANGED router
    /\ UNCHANGED <<ops, known, serial, probe>>

\* interface_name[3:]
base_name(interface_name) == SubSeq(interface_name, 4, Len(interface_name))

\* 3. GET /system/scheduler?name~EXP_<base_name>
D_ListScheds(p) ==
    /\ pc[p] = "list_scheds"
    /\ \/ /\ Passing
          /\ Listing(p, "scheduler",
                     Ids(SchedsByName("EXP_" \o base_name(loc[p].iface_name))),
                     "delete_sched", "list_iface")
       \/ /\ Failing
          /\ Logged(p, "scheduler", "list_iface")
    /\ UNCHANGED <<router, ops, known, serial, probe>>

\* 3. DELETE /system/scheduler/<id>
D_DeleteSched(p) ==
    /\ pc[p] = "delete_sched"
    /\ LET id == Head(loc[p].todo)
       IN  \/ /\ id \in Ids(scheds)
              /\ Passing
              /\ scheds' = {x \in scheds : x.id # id}
              /\ Deleted(p, "delete_sched", "list_iface")
              /\ UNCHANGED <<ifaces, addrs, peers, nat, cascade>>
           \/ /\ \/ id \notin Ids(scheds) /\ Passing
                 \/ Failing
              /\ Logged(p, "scheduler", "list_iface")
              /\ UNCHANGED router
    /\ UNCHANGED <<ops, known, serial, probe>>

\* step 4 raised: its except clause prints and re-raises
Fatal(p, e) ==
    /\ Store(p, Raised([loc[p] EXCEPT !.tried = @ \cup {"interface"},
                                      !.failed = @ \cup {"interface"}], e))
    /\ Goto(p, "done")

\* 4. GET /interface/wireguard?name=<interface_name>
D_ListIface(p) ==
    /\ pc[p] = "list_iface"
    /\ \/ /\ Passing
          /\ LET found == Listed(Ids(IfacesByName(loc[p].iface_name)))
                 l == [loc[p] EXCEPT !.tried = @ \cup {"interface"}]
             IN  IF found = <<>>
                 THEN Store(p, Returned(l)) /\ Goto(p, "done")
                 ELSE Store(p, [l EXCEPT !.iface_id = found[1]])
                        /\ Goto(p, "delete_iface")
       \/ /\ Failing
          /\ Fatal(p, Err("GET /interface/wireguard"))
    /\ UNCHANGED <<router, ops, known, serial, probe>>

\* 4. DELETE /interface/wireguard/<id>
D_DeleteIface(p) ==
    /\ pc[p] = "delete_iface"
    /\ \/ /\ loc[p].iface_id \in Ids(ifaces)
          /\ Passing
          /\ RemoveIface(loc[p].iface_id)
          /\ Store(p, Returned(loc[p]))
          /\ Goto(p, "done")
       \/ /\ \/ loc[p].iface_id \notin Ids(ifaces) /\ Passing
             \/ Failing
          /\ Fatal(p, Err("DELETE /interface/wireguard"))
          /\ UNCHANGED router
    /\ UNCHANGED <<ops, known, serial, probe>>

---------------------------------------------------------------------------
(* The caller                                                              *)

\* the WGClient row create_client adds after provision returned
WGClient(l) ==
    [name |-> l.iface_name, opno |-> l.opno, enable_nat |-> l.enable_nat,
     duration_days |-> l.duration_days, is_active |-> TRUE, response |-> "",
     user |-> l.user, client_name |-> l.client_name,
     nat_enabled |-> Get(l.data.enable_nat, FALSE),
     nat_mappings |-> l.result[1].nat_mappings,
     expires_at |-> IF Get(l.data.duration_days, 0) > 0
                    THEN Some(now(l.opno) + Get(l.data.duration_days, 0))
                    ELSE None]

\* db.add(client) and flush: client_name is unique, the store rejects a row
\* whose client_name another row has, and the session is rolled back
Added(l) ==
    IF \E k \in known : k.client_name = l.client_name THEN known
    ELSE known \cup {WGClient(l)}

\* an endpoint that marks the row whatever delete_client did
Responded_Always(l) ==
    {IF k.opno # l.client THEN k
     ELSE [k EXCEPT !.is_active = FALSE,
                    !.response = IF l.status = "ok" THEN "success" ELSE "error"] :
        k \in known}

\* the rows after the DELETE /clients/<id> endpoint got the outcome l of
\* delete_client: is_active = False and {"success": True} after a return, the
\* exception passed on (and the session rolled back) after a raise
Responded(l) ==
    {IF k.opno # l.client THEN k
     ELSE IF l.status = "ok"
          THEN [k EXCEPT !.is_active = FALSE, !.response = "success"]
          ELSE [k EXCEPT !.response = "error"] : k \in known}

\* the endpoint takes the outcome of the call it awaited
Finish(p) ==
    /\ pc[p] = "done"
    /\ known' = IF loc[p].op = "provision" /\ loc[p].status = "ok"
                THEN Added(loc[p])
                ELSE IF loc[p].op = "delete_client" /\ loc[p].endpoint
                THEN Responded(loc[p])
                ELSE known
    /\ Store(p, NoLoc)
    /\ Goto(p, "idle")
    /\ UNCHANGED <<router, fails, ops, serial, probe>>

NoProbe ==
    [fn |-> "", subnet |-> "", start |-> 0, count |-> 0, ip |-> "", base |-> 0,
     interface |-> "", stats |-> None]

InitRouter ==
    /\ ifaces = {}
    /\ addrs = {}
    /\ peers = {}
    /\ nat = {}
    /\ scheds = {}
    /\ cascade \in BOOLEAN

InitCaller ==
    /\ pc = [p \in Procs |-> "idle"]
    /\ loc = [p \in Procs |-> NoLoc]
    /\ fails = 0
    /\ ops = 0
    /\ known = {}
    /\ probe = NoProbe

Init == InitRouter /\ InitCaller /\ serial = FALSE

InitSerial == InitRouter /\ InitCaller /\ serial = TRUE

Next ==
    \E p \in Procs :
        \/ StartProvision(p)
        \/ P_GetAddrs(p)
        \/ P_GetPeers(p)
        \/ P_CreateIface(p)
        \/ P_BindAddr(p)
        \/ P_CreatePeer(p)
        \/ P_GetPorts(p)
        \/ P_CreateNat(p)
        \/ P_CreateMasq(p)
        \/ P_CreateSched(p)
        \/ P_Compensate(p)
        \/ StartDelete(p)
        \/ D_ListAddrs(p)
        \/ D_DeleteAddr(p)
        \/ D_ListNat(p)
        \/ D_DeleteNat(p)
        \/ D_ListScheds(p)
        \/ D_DeleteSched(p)
        \/ D_ListIface(p)
        \/ D_DeleteIface(p)
        \/ Finish(p)

\* request handlers that interleave at every await
Spec == Init /\ [][Next]_vars

\* a caller that starts an operation only when none is running
SpecSerial == InitSerial /\ [][Next]_vars

\* provision on its own, with all that can meet it: pools that run out,
\* create answers without an identifier, cancellation
NextEnv ==
    \E p \in Procs :
        \/ StartAnyPool(p)
        \/ P_GetAddrs(p)
        \/ P_GetPeers(p)
        \/ P_CreateIface(p)
        \/ P_BindAddr(p)
        \/ P_CreatePeer(p)
        \/ P_GetPorts(p)
        \/ P_CreateNat(p)
        \/ P_CreateMasq(p)
        \/ P_CreateSched(p)
        \/ P_Compensate(p)
        \/ P_NoId(p)
        \/ P_Cancel(p)
        \/ Finish(p)

SpecEnv == InitSerial /\ [][NextEnv]_vars

\* every call to the router succeeds
Reliable == fails' = fails

\* the endpoints serving users whose requests interleave, on a router that
\* answers every call
NextClients ==
    \E p \in Procs :
        \/ StartFirst(p) /\ Reliable
        \/ StartCreate(p) /\ Reliable
        \/ P_GetAddrs(p) /\ Reliable
        \/ P_GetPeers(p) /\ Reliable
        \/ P_CreateIface(p) /\ Reliable
        \/ P_BindAddr(p) /\ Reliable
        \/ P_CreatePeer(p) /\ Reliable
        \/ P_GetPorts(p) /\ Reliable
        \/ P_CreateNat(p) /\ Reliable
        \/ P_CreateMasq(p) /\ Reliable
        \/ P_CreateSched(p) /\ Reliable
        \/ StartDeleteOwn(p) /\ Reliable
        \/ D_ListAddrs(p) /\ Reliable
        \/ D_DeleteAddr(p) /\ Reliable
        \/ D_ListNat(p) /\ Reliable
        \/ D_DeleteNat(p) /\ Reliable
        \/ D_ListScheds(p) /\ Reliable
        \/ D_DeleteSched(p) /\ Reliable
        \/ D_ListIface(p) /\ Reliable
        \/ D_DeleteIface(p) /\ Reliable
        \/ Finish(p) /\ Reliable

SpecClients == Init /\ [][NextClients]_vars

---------------------------------------------------------------------------
(* The allocators on their own, against router listings of every shape.    *)

\* subnets asked of the address allocator, with the numbers they denote
Subnets ==
    {[text |-> "10.200.0.0/29", net |-> 180879360, plen |-> 29],
     [text |-> "10.200.0.0/30", net |-> 180879360, plen |-> 30],
     [text |-> "10.200.0.4/30", net |-> 180879364, plen |-> 30],
     [text |-> "10.200.0.0/31", net |-> 180879360, plen |-> 31],
     [text |-> "10.200.0.2/32", net |-> 180879362, plen |-> 32]}

AddrListings ==
    {[id |-> 1, interface |-> "wg_a_bbbb", address |-> "10.200.0.1/32",
      network |-> "10.200.0.2"],
     [id |-> 2, interface |-> "bridge", address |-> "10.200.0.3/29",
      network |-> "10.200.0.0"],
     [id |-> 3, interface |-> "wg_b_cccc", address |-> "10.200.0.1/32",
      network |-> "10.200.0.4"]}

\* listed peers; the router's REST answers carry every value as a string
\* ("true" / "false" for flags), and leave out a property that has no value
PeerListings ==
    {[id |-> 4, interface |-> "wg_a_bbbb", allowed |-> "10.200.0.2/32",
      comment |-> "", disabled |-> "false", last_handshake |-> "never",
      rx |-> "0", tx |-> "0"],
     [id |-> 5, interface |-> "wg_c", allowed |-> "10.200.0.5/32,10.200.0.6/32",
      comment |-> "", disabled |-> "true", last_handshake |-> "1m2s",
      rx |-> "1024", tx |-> "77"],
     [id |-> 6, interface |-> "wg_d", allowed |-> "", comment |-> "",
      disabled |-> Absent, last_handshake |-> Absent, rx |-> Absent, tx |-> Absent],
     [id |-> 12, interface |-> "wg_a_bbbb", allowed |-> "", comment |-> "",
      disabled |-> "true", last_handshake |-> "5s", rx |-> "9", tx |-> "8"]}

\* interface names asked of get_client_stats
StatNames == {"wg_a_bbbb", "wg_c", "wg_d", "wg_a"}

\* dst-port fields of listed rules, with the ports they denote
PortForms ==
    {[id |-> 7, text |-> "20000", ports |-> {20000}],
     [id |-> 8, text |-> "20002-20003", ports |-> 20002..20003],
     [id |-> 9, text |-> "20005", ports |-> {20005}],
     [id |-> 10, text |-> "20006-20009", ports |-> 20006..20009]}

NatListings ==
    {[id |-> f.id, chain |-> "dstnat",
      dstport |-> f.text, toaddr |-> "10.200.0.2", toport |-> "443",
      outif |-> "", comment |-> "wg_a_bbbb_https"] : f \in PortForms}
    \cup {[id |-> 11, chain |-> "srcnat", dstport |-> "", toaddr |-> "",
           toport |-> "", outif |-> "wg_a_bbbb", comment |-> "Masq-a"]}

Floors == {PortFloor, PortFloor + 1}

InitAlloc ==
    /\ ifaces = {}
    /\ addrs \in SUBSET AddrListings
    /\ peers \in SUBSET PeerListings
    /\ nat \in SUBSET NatListings
    /\ scheds = {}
    /\ cascade = FALSE
    /\ InitCaller
    /\ serial = TRUE

ProbeIp ==
    /\ probe = NoProbe
    /\ \E s \in Subnets :
        probe' = [NoProbe EXCEPT !.fn = "get_next_free_ip", !.subnet = s.text,
                                 !.ip = get_next_free_ip(s.text, addrs, peers)]
    /\ UNCHANGED <<router, pc, loc, fails, ops, known, serial>>

ProbePort ==
    /\ probe = NoProbe
    /\ \E start \in Floors, count \in 1..MaxCount :
        probe' = [NoProbe EXCEPT !.fn = "get_free_port_block", !.start = start,
                                 !.count = count,
                                 !.base = get_free_port_block(nat, start, count)]
    /\ UNCHANGED <<router, pc, loc, fails, ops, known, serial>>

ProbeStats ==
    /\ probe = NoProbe
    /\ \E name \in StatNames :
        probe' = [NoProbe EXCEPT !.fn = "get_client_stats", !.interface = name,
                                 !.stats = get_client_stats(peers, name)]
    /\ UNCHANGED <<router, pc, loc, fails, ops, known, serial>>

NextAlloc == ProbeIp \/ ProbePort \/ ProbeStats

SpecAlloc == InitAlloc /\ [][NextAlloc]_vars

---------------------------------------------------------------------------
(* Properties of the allocators.                                           *)

Min(S) == CHOOSE x \in S : \A y \in S : x <= y

StartsWith(s, t) == Len(t) <= Len(s) /\ SubSeq(s, 1, Len(t)) = t

\* the host addresses of a subnet, as numbers
HostNumbers(s) ==
    LET top == s.net + 2 ^ (32 - s.plen) - 1
    IN  {h \in s.net .. top : s.plen >= 31 \/ (h # s.net /\ h # top)}

\* an address binding holds the address (as its address or as its network)
BoundToInterface(h) ==
    \E a \in addrs : StartsWith(a.address, IpToStr(h) \o "/") \/ a.network = IpToStr(h)

\* a peer lists the address in its allowed-address
ListedByPeer(h) ==
    \E q \in peers : Contains("," \o q.allowed, "," \o IpToStr(h) \o "/")

Assignable(s) ==
    {h \in HostNumbers(s) : h # s.net + 1 /\ ~BoundToInterface(h) /\ ~ListedByPeer(h)}

\* C6: get_next_free_ip(S) returns the numerically smallest host address of S
\* that is neither the gateway (network address + 1) nor held by an address
\* binding nor listed in a peer's allowed-address, and it fails with the
\* pool-exhausted error exactly when there is no such host address.
C6_NextFreeIp ==
    probe.fn = "get_next_free_ip" =>
        \A s \in Subnets : s.text = probe.subnet =>
            IF Assignable(s) = {} THEN probe.ip = NoIp
            ELSE probe.ip = IpToStr(Min(Assignable(s)))

\* the scan passed the gateway and three used addresses of the /29
C6_Witness ==
    /\ probe.fn = "get_next_free_ip"
    /\ probe.subnet = "10.200.0.0/29"
    /\ probe.ip = "10.200.0.5"

\* the ports that the listed destination-NAT rules denote
UsedPortNumbers ==
    UNION {f.ports : f \in {g \in PortForms :
                \E r \in nat : r.chain = "dstnat" /\ r.dstport = g.text}}

BlockFree(base, count) == \A i \in 0..(count - 1) : (base + i) \notin UsedPortNumbers

\* C7: get_free_port_block(floor, N) returns the smallest base >= floor for
\* which all of [base, base + N) are absent from the ports of the listed
\* destination-NAT rules (single ports and inclusive ranges); a base whose
\* block is used at some offsets only is not returned.
C7_FreePortBlock ==
    probe.fn = "get_free_port_block" =>
        probe.base = Min({b \in probe.start .. (probe.start + Window) :
                            BlockFree(b, probe.count)})

\* floor 20000 is free itself, yet its block of four meets the range
\* 20002-20003: the block is refused and the base moves past the range
C7_Witness ==
    /\ probe.fn = "get_free_port_block"
    /\ probe.start = 20000
    /\ probe.count = 4
    /\ 20000 \notin UsedPortNumbers
    /\ 20002 \in UsedPortNumbers
    /\ probe.base = 20010

---------------------------------------------------------------------------
(* Properties of provision and delete_client.                              *)

Provisioning(p) == loc[p].op = "provision"
Deprovisioning(p) == loc[p].op = "delete_client"

\* provision returned its value / raised
ProvisionOk(p) == Provisioning(p) /\ pc[p] = "done" /\ loc[p].status = "ok"
ProvisionFailed(p) == Provisioning(p) /\ pc[p] = "done" /\ loc[p].status = "error"

\* provision raised after it had created its interface
FailedAfterIface(p) == ProvisionFailed(p) /\ loc[p].iface_id # 0

\* the items of the dependent collections that operation number n created
ItemsOf(n, items) == {x \in items : x.id \div IdSpan = n}

\* C1: two provisioning attempts that run concurrently against the same
\* subnet are assigned different client addresses.
C1_ConcurrentAddressesDiffer ==
    \A p, q \in Procs :
        p # q /\ ProvisionOk(p) /\ ProvisionOk(q) =>
            loc[p].client_ip # loc[q].client_ip

\* C2: no public port is mapped by two destination-NAT rules (concurrent
\* NAT-enabled provisioning attempts obtain disjoint port blocks).
C2_NoPortMappedTwice ==
    \A r1, r2 \in DstNatRules(nat) :
        r1.id # r2.id => PortsOfField(r1.dstport) \cap PortsOfField(r2.dstport) = {}

\* C3: when a remote step of provision fails after the interface was
\* created, the interface is absent from the router after provision returns
\* and the error raised is the error of the failed step, also when the
\* compensating deletion fails.
C3_CompensationRuns ==
    \A p \in Procs :
        FailedAfterIface(p) =>
            /\ loc[p].iface_id \notin Ids(ifaces)
            /\ loc[p].error = loc[p].exc

\* C4: after a provision that failed after the interface creation, none of
\* the resources the attempt created (address binding, peer, NAT rules,
\* scheduler) remains on the router.
C4_NoLeak ==
    \A p \in Procs :
        FailedAfterIface(p) =>
            loc[p].created \cap Ids(addrs \cup peers \cup nat \cup scheds) = {}

\* C5: a delete_client in which no remote call fails, on the interface of a
\* provision with NAT enabled and a positive duration, removes every NAT
\* rule that provision created (destination-NAT and masquerade), its
\* scheduler, its address binding and the interface.
C5_DeprovisionRemovesAll ==
    \A p \in Procs :
        Deprovisioning(p) /\ pc[p] = "done" /\ loc[p].status = "ok"
                /\ loc[p].failed = {} =>
            \A k \in known :
                k.name = loc[p].iface_name /\ k.enable_nat /\ k.duration_days > 0 =>
                    /\ ItemsOf(k.opno, nat) = {}
                    /\ ItemsOf(k.opno, scheds) = {}
                    /\ ItemsOf(k.opno, addrs) = {}
                    /\ IfacesByName(k.name) = {}

\* C8: delete_client raises only if the interface is still present on the
\* router (and its deletion failed); with the interface already absent, as
\* in a second call after a first one removed it, it raises no error.
C8_RaisesOnlyIfPresent ==
    \A p \in Procs :
        Deprovisioning(p) /\ pc[p] = "done" /\ loc[p].status = "error" =>
            IfacesByName(loc[p].iface_name) # {}

Dependents == {"address", "nat", "scheduler"}

\* C9: in delete_client a failure of the address, NAT or scheduler sub-step
\* never keeps the later sub-steps from being attempted and is never raised;
\* a failure of the final interface deletion is always raised.
C9_TeardownContinues ==
    \A p \in Procs :
        Deprovisioning(p) /\ pc[p] = "done" =>
            /\ loc[p].tried = Dependents \cup {"interface"}
            /\ loc[p].status = "error" <=> "interface" \in loc[p].failed
            /\ loc[p].status = "error" =>
                    loc[p].error \in {Err("GET /interface/wireguard"),
                                      Err("DELETE /interface/wireguard")}

\* every dependent sub-step failed, the interface step ran all the same and
\* delete_client returned without an error
C9_Witness ==
    \E p \in Procs :
        /\ Deprovisioning(p) /\ pc[p] = "done"
        /\ loc[p].failed \cap Dependents # {}
        /\ "interface" \in loc[p].tried
        /\ loc[p].status = "ok"

\* C10: with one operation at a time, no client address is assigned twice:
\* no two peers list the same allowed-address and no two address bindings
\* have the same network; the address a successful provision returns is held
\* by the binding and the peer of that provision only; on a router without
\* usage the first provision of 10.200.0.0/16 gets 10.200.0.2 and the
\* provision right after it gets 10.200.0.3.
C10_AddressesUnique ==
    /\ \A q1, q2 \in peers : q1.id # q2.id => q1.allowed # q2.allowed
    /\ \A a1, a2 \in addrs : a1.id # a2.id => a1.network # a2.network
    /\ \A p \in Procs :
        ProvisionOk(p) =>
            /\ \A a \in addrs : a.network = loc[p].client_ip => a.id \in loc[p].created
            /\ \A q \in peers :
                q.allowed = loc[p].client_ip \o "/32" => q.id \in loc[p].created
            /\ loc[p].opno = 1 => loc[p].client_ip = "10.200.0.2"
            /\ loc[p].opno = 2 /\ (\E k \in known : k.opno = 1) =>
                    loc[p].client_ip = "10.200.0.3"

\* the second of two provisions in a row returned 10.200.0.3
C10_Witness ==
    \E p \in Procs :
        /\ ProvisionOk(p)
        /\ loc[p].opno = 2
        /\ \E k \in known : k.opno = 1
        /\ loc[p].client_ip = "10.200.0.3"
        /\ Cardinality(peers) = 2

\* provision was cancelled
ProvisionCancelled(p) ==
    Provisioning(p) /\ pc[p] = "done" /\ loc[p].status = "cancelled"

\* C11: a provisioning attempt that is cancelled after its interface was
\* created still runs its compensation before the cancellation is surfaced:
\* a cancelled provision never leaves its interface on the router.
C11_CancelCompensates ==
    \A p \in Procs :
        ProvisionCancelled(p) /\ loc[p].iface_id # 0 =>
            loc[p].iface_id \notin Ids(ifaces)

\* the value a finished provision returned
ResultOf(p) == loc[p].result[1]

CallsOf(p) == {loc[p].log[j].call : j \in 1..Len(loc[p].log)}

\* the errors of the steps up to the interface creation
EarlyErrors ==
    {Err("GET /ip/address"), Err("GET /interface/wireguard/peers"), NoIp,
     Err("PUT /interface/wireguard"), "Failed to create interface"}

\* C13: a provision that fails at or before the interface creation (pool
\* exhausted, the create call fails, or its answer has no identifier) issues
\* no compensating delete, and no resource of the attempt is on the router
\* afterwards.
C13_EarlyFailureIsClean ==
    \A p \in Procs :
        ProvisionFailed(p) /\ "PUT /ip/address" \notin CallsOf(p) =>
            /\ loc[p].error \in EarlyErrors
            /\ loc[p].iface_id = 0
            /\ "DELETE /interface/wireguard" \notin CallsOf(p)
            /\ ItemsOf(loc[p].opno, ifaces \cup addrs \cup peers \cup nat \cup scheds) = {}

\* the second provision on the small pool found it exhausted, the first
\* one's binding and peer holding its only client address
C13_Witness ==
    \E p \in Procs :
        /\ ProvisionFailed(p)
        /\ loc[p].error = NoIp
        /\ loc[p].opno = 2
        /\ addrs # {} /\ peers # {}
        /\ CallsOf(p) = {"GET /ip/address", "GET /interface/wireguard/peers"}

\* C14: the delete_client endpoint marks a client record inactive only after
\* the router teardown returned without error; when the teardown raises (its
\* final interface deletion failed) the record stays active and the request
\* is answered with the failure.
C14_ActiveUntilTornDown ==
    /\ \A k \in known :
        /\ k.response = "error" => k.is_active
        /\ ~k.is_active <=> k.response = "success"
    /\ \A p \in Procs :
        Deprovisioning(p) /\ loc[p].endpoint =>
            \A k \in known : k.opno = loc[p].client => k.is_active

\* the endpoint answered a teardown whose interface deletion failed: the
\* record is active and the interface is on the router
C14_Witness ==
    \E k \in known :
        /\ k.response = "error"
        /\ k.is_active
        /\ IfacesByName(k.name) # {}

\* the listed peers bound to the interface, and the first of them
BoundPeers(name) == {q \in peers : q.interface = name}
FirstPeer(name) == CHOOSE q \in BoundPeers(name) : \A r \in BoundPeers(name) : q.id <= r.id

\* C15: get_client_stats(name) returns None when no listed peer is bound to
\* name; otherwise it reports the peer bound to it, with last_handshake None
\* exactly when the router's value is "never" and with enabled the negation
\* of the router's disabled flag.
C15_ClientStats ==
    probe.fn = "get_client_stats" =>
        IF BoundPeers(probe.interface) = {} THEN probe.stats = None
        ELSE LET peer == FirstPeer(probe.interface)
                 stats == probe.stats[1]
             IN  /\ probe.stats # None
                 /\ peer.last_handshake # Absent =>
                        (stats.last_handshake = None <=> peer.last_handshake = "never")
                 /\ stats.enabled = ~(peer.disabled = "true")

\* the router-side private keys drawn so far
ServerKeys == {generate_keys(2 * n).priv : n \in 1..ops}

\* the text values of a returned dict
TextsOf(r) ==
    {r.client_name, r.client_ip, r.gateway_ip, r.server_public_key,
     r.client_private_key, r.interface_name}
        \cup {r.expires_at[j] : j \in 1..Len(r.expires_at)}

\* C16: the value provision returns never contains the router-side private
\* key: of the two private keys drawn, the client's is the one returned
\* (with the router's public key), and the router's is sent in the
\* interface-creation request only, so the interface is the only item on the
\* router that holds it.
C16_ServerKeyNotReturned ==
    /\ \A p \in Procs :
        ProvisionOk(p) =>
            /\ TextsOf(ResultOf(p)) \cap ServerKeys = {}
            /\ ResultOf(p).client_private_key = loc[p].cli_priv
            /\ ResultOf(p).server_public_key = PublicKey(loc[p].srv_priv)
            /\ loc[p].cli_priv # loc[p].srv_priv
    /\ \A x \in ifaces : x.private_key = generate_keys(2 * (x.id \div IdSpan)).priv
    /\ \A x \in addrs : {x.interface, x.address, x.network} \cap ServerKeys = {}
    /\ \A x \in peers : {x.interface, x.public_key, x.allowed, x.comment} \cap ServerKeys = {}
    /\ \A x \in nat : {x.dstport, x.toaddr, x.toport, x.outif, x.comment} \cap ServerKeys = {}
    /\ \A x \in scheds : x.name \notin ServerKeys

\* a provision returned the client's key while its interface holds the
\* router's
C16_Witness ==
    \E p \in Procs :
        /\ ProvisionOk(p)
        /\ ResultOf(p).client_private_key = "priv3"
        /\ \E x \in ifaces : x.id = loc[p].iface_id /\ x.private_key = "priv2"
        /\ \E x \in peers : x.id = loc[p].peer_id /\ x.public_key = "pub3"

\* a delete_client that returned with no remote call having failed
CleanDelete(p) ==
    /\ Deprovisioning(p) /\ pc[p] = "done"
    /\ loc[p].status = "ok" /\ loc[p].failed = {}

\* C17: the scheduler naming round-trips, also for client names with
\* underscores: the scheduler provision creates is named
\* EXP_<client_name>_<suffix> with the suffix of the interface name, the name
\* delete_client derives from the interface name matches it, and a
\* delete_client without remote failures deletes that scheduler.
C17_SchedulerRoundTrip ==
    /\ \A p \in Procs :
        ProvisionOk(p) /\ loc[p].duration_days > 0 =>
            \A s \in ItemsOf(loc[p].opno, scheds) :
                /\ s.name = "EXP_" \o loc[p].client_name \o "_" \o loc[p].suffix
                /\ StartsWith(loc[p].iface_name, "wg_")
                /\ s \in SchedsByName("EXP_" \o base_name(loc[p].iface_name))
    /\ \A p \in Procs :
        CleanDelete(p) =>
            \A k \in known : k.name = loc[p].iface_name => ItemsOf(k.opno, scheds) = {}

\* the interface of client a_bbbb, provisioned with a duration, was torn
\* down without a failure and its scheduler is gone
C17_Witness ==
    \E p \in Procs :
        /\ CleanDelete(p)
        /\ loc[p].iface_name = "wg_a_bbbb_bbbb"
        /\ \E k \in known :
            /\ k.name = loc[p].iface_name /\ k.duration_days > 0
            /\ ItemsOf(k.opno, scheds) = {}

\* what enumerating by interface name finds: the address bindings and peers
\* of the interface, the NAT rules whose comment holds the name, the
\* schedulers whose name holds the name derived from it
EnumeratedBy(name) ==
    Ids(AddrsOfInterface(name)) \cup Ids({q \in peers : q.interface = name})
        \cup Ids(NatByComment(name))
        \cup Ids(SchedsByName("EXP_" \o base_name(name)))

\* C18: every resource provision creates (address binding, peer, each
\* destination-NAT rule, the masquerade rule, the scheduler) carries a tag
\* derived from the interface name, so that enumerating by the interface
\* name finds all of them and only them.
C18_TagsEnumerate ==
    \A p \in Procs :
        ProvisionOk(p) => EnumeratedBy(loc[p].iface_name) = loc[p].created

\* C19: provision reports success only if every create call returned an item
\* with an identifier: an answer without identifier (for the interface, the
\* address binding, the peer, a NAT rule or the scheduler) is a creation
\* failure and never leads to a returned ProvisionedPeer.
C19_SuccessNeedsIdentifiers ==
    \A p \in Procs :
        ProvisionOk(p) => loc[p].noid = {}

\* the requests of a whole provision, in the order of the claim
Plan(l) ==
    <<"GET /ip/address", "GET /interface/wireguard/peers",
      "PUT /interface/wireguard", "PUT /ip/address",
      "PUT /interface/wireguard/peers">>
    \o (IF l.enable_nat
        THEN <<"GET /ip/firewall/nat">>
             \o [j \in 1..Len(SERVICES) |-> "PUT /ip/firewall/nat dstnat"]
             \o <<"PUT /ip/firewall/nat srcnat">>
        ELSE <<>>)
    \o (IF l.duration_days > 0 THEN <<"PUT /system/scheduler">> ELSE <<>>)

Compensated(log) ==
    Len(log) > 0 /\ log[Len(log)].call = "DELETE /interface/wireguard"

\* the requests of the steps, the compensating delete set aside
StepsOf(log) == IF Compensated(log) THEN SubSeq(log, 1, Len(log) - 1) ELSE log

TeardownOrder == <<"address", "nat", "scheduler", "interface">>

\* C21: in every delete_client the interface DELETE is issued only after the
\* address, NAT-rule and scheduler sub-steps have each been attempted
\* (completed or left through their except clause), in that order; the
\* interface is never deleted before its dependents were attempted.
C21_DependentsFirst ==
    \A p \in Procs :
        Deprovisioning(p) =>
            /\ \E n \in 0..Len(TeardownOrder) :
                loc[p].tried = {TeardownOrder[j] : j \in 1..n}
            /\ pc[p] \in {"list_iface", "delete_iface"} =>
                    Dependents \subseteq loc[p].tried /\ loc[p].todo = <<>>
            /\ pc[p] = "delete_iface" => loc[p].tried = Dependents \cup {"interface"}

\* the teardown of an interface with NAT rules and a scheduler ran its three
\* dependent sub-steps, one of them failing, and then deleted the interface
C21_Witness ==
    \E p \in Procs :
        /\ Deprovisioning(p) /\ pc[p] = "done" /\ loc[p].status = "ok"
        /\ loc[p].tried = Dependents \cup {"interface"}
        /\ loc[p].failed = {"nat"}
        /\ IfacesByName(loc[p].iface_name) = {}
        /\ \E k \in known : k.opno = loc[p].client /\ k.enable_nat /\ k.duration_days > 0


\* C22: no deprovision of an interface runs concurrently with the provision
\* that creates it: the delete_client endpoint targets the interface name of
\* a persisted client record only, and the record is written only after the
\* provision of that interface has returned.
C22_NoTeardownOfUncommitted ==
    /\ \A p \in Procs :
        Deprovisioning(p) /\ loc[p].endpoint =>
            /\ \E k \in known : k.opno = loc[p].client /\ k.name = loc[p].iface_name
            /\ \A q \in Procs : Provisioning(q) => loc[q].opno # loc[p].client
    /\ \A k \in known : \A q \in Procs : Provisioning(q) => loc[q].opno # k.opno

\* a teardown called by the endpoint is under way while another request's
\* provision has created its interface and not yet returned
C22_Witness ==
    \E p, q \in Procs :
        /\ Deprovisioning(p) /\ loc[p].endpoint /\ pc[p] = "list_scheds"
        /\ Provisioning(q) /\ pc[q] = "create_peer"
        /\ loc[q].iface_id \in Ids(ifaces)


\* the day number a date text YYYY-MM-DD denotes
RECURSIVE DaysBefore(_, _)
DaysBefore(y, mo) ==
    IF mo > 1 THEN DaysInMonth(y, mo - 1) + DaysBefore(y, mo - 1)
    ELSE IF y > EpochYear THEN DaysInYear(y - 1) + DaysBefore(y - 1, 1)
    ELSE 0
DayNumber(text) ==
    LET q == Split(text, "-")
    IN  DaysBefore(ParseInt(q[1]), ParseInt(q[2])) + ParseInt(q[3]) - 1

\* the comment tag that encodes an expiry marker
TagOf(client_name, marker) == "Client: " \o client_name \o " | EXP: " \o marker

\* C23: the expiry marker in the value provision returns is "unlimited" when
\* duration_days <= 0 and the calendar date duration_days days from now when
\* duration_days > 0, and the same marker is the one encoded in the comment
\* of the interface and of the peer.
C23_ExpiryMarker ==
    \A p \in Procs :
        ProvisionOk(p) =>
            LET marker == ResultOf(p).expires_at
            IN  /\ marker # None
                /\ IF loc[p].duration_days <= 0 THEN marker[1] = "unlimited"
                   ELSE /\ Len(marker[1]) = 10
                        /\ DayNumber(marker[1]) = now(loc[p].opno) + loc[p].duration_days
                /\ \A x \in ItemsOf(loc[p].opno, ifaces \cup peers) :
                        x.comment = TagOf(loc[p].client_name, marker[1])


\* C24: any two successful provisioning calls produce distinct interface
\* names, also when they use the same client name: the name of a returned
\* provision is not that of an earlier successful one, and no two interfaces
\* on the router have the same name.
C24_NamesDistinct ==
    /\ \A p \in Procs :
        ProvisionOk(p) =>
            /\ \A k \in known : k.opno # loc[p].opno => k.name # loc[p].iface_name
            /\ \A q \in Procs :
                q # p /\ ProvisionOk(q) => loc[q].iface_name # loc[p].iface_name
    /\ \A x, y \in ifaces : x.id # y.id => x.name # y.name


\* no teardown has been asked for the interface name of record k
Untouched(k) ==
    /\ \A j \in known : j.name = k.name => j.response = "" /\ j.is_active
    /\ \A p \in Procs : Deprovisioning(p) => loc[p].iface_name # k.name

\* what the provision of record k created is on the router
Intact(k) ==
    /\ Cardinality(IfacesByName(k.name)) = 1
    /\ Cardinality(ItemsOf(k.opno, addrs)) = 1
    /\ Cardinality(ItemsOf(k.opno, nat)) = (IF k.enable_nat THEN Len(SERVICES) + 1 ELSE 0)
    /\ Cardinality(ItemsOf(k.opno, scheds)) = (IF k.duration_days > 0 THEN 1 ELSE 0)

\* C25: delete_client(X) deletes only resources that belong to interface X:
\* the address binding, NAT rules, scheduler and interface of every other
\* provisioned interface Y, also of a Y whose name has X as a prefix, are
\* unchanged by it.
C25_TeardownFrame ==
    \A k \in known : Untouched(k) => Intact(k)


\* the request that created item x is still being served, or has its row
Accounted(x) ==
    \/ \E p \in Procs : Provisioning(p) /\ loc[p].opno = x.id \div IdSpan
    \/ \E k \in known : k.opno = x.id \div IdSpan

\* C26: if a create_client request ends in failure for any reason, also
\* when the client record could not be persisted after provision succeeded,
\* no router resource created by that request remains; and a failed provision
\* never leaves a persisted record.  Stated for the behaviours in which no
\* call to the router has failed, where a request can only fail at the store.
C26_FailedCreateLeavesNothing ==
    /\ fails = 0 =>
        \A x \in ifaces \cup addrs \cup peers \cup nat \cup scheds : Accounted(x)
    /\ \A p \in Procs :
        ProvisionFailed(p) => \A k \in known : k.opno # loc[p].opno


\* the active records of a user
ActiveOf(user) == {k \in known : k.user = user /\ k.is_active}

\* C27: at every reachable state a user has at most one active client
\* record, also when the same user issues several create_client requests
\* concurrently.
C27_SingleDevice ==
    \A user \in Users : Cardinality(ActiveOf(user)) <= 1


\* C28: the client record create_client persists agrees with the parameters
\* passed to provision, for every request body, also one that omits
\* enable_nat or duration_days: nat_enabled is true exactly when provision
\* ran with NAT enabled (nat_mappings present), and expires_at is set exactly
\* when provision ran with duration_days > 0.
C28_RecordAgrees ==
    \A k \in known :
        /\ k.nat_enabled <=> k.enable_nat
        /\ k.nat_enabled <=> k.nat_mappings # None
        /\ k.expires_at # None <=> k.duration_days > 0

=============================================================================
